---- MODULE Spec2Model ----
(***************************************************************************)
(* DAG-aware rename tracer (eden/scm/lib/copytrace, DagCopyTrace).         *)
(*                                                                         *)
(* The repository (commit DAG, root trees, file blobs with their rename    *)
(* headers) is built commit by commit; a trace is then run on the frozen   *)
(* repository, one walker loop pass per step.                              *)
(***************************************************************************)
EXTENDS Integers, Sequences, FiniteSets, TLC

\* ---------------------------------------------------------------- bounds
MaxCommits == 3
NPaths == 3
MaxRoots == 2
MaxParents == 2
NIds == 2
NFiles == 2

Paths == 1..NPaths
NoPath == 0

\* A tree entry: the file blob at a path.  hgid 0 means the path is not in
\* the tree; from is the predecessor path of the blob's rename header.
Absent == [hgid |-> 0, from |-> NoPath]

VARIABLES
    parents,    \* dag: commit -> ordered list of parents (index 1 is p1)
    tree,       \* root_tree_reader + tree_store + file_reader: commit -> path -> entry
    pc,         \* "idle", "forward", "backward", "done"
    src, dst, src_path,         \* arguments of trace_rename
    curr, target, curr_path,    \* the walker's tuple
    base, split, base_path,     \* GCA decomposition of trace_rename
    found,                      \* the walker's last rename_commit and its renames
    result,                     \* what the trace returned
    failed,                     \* the error a collaborator call failed with
    first,                      \* the call before this one and what it returned
    iters,                      \* loop passes performed by the walkers
    traced,                     \* every value curr_path has had
    walked,                     \* commits of the ranges handed to the walkers
    inserted,                   \* the commit inserted after a trace, 0 if none
    other,                      \* the locals of a second, suspended trace
    overlap,                    \* both traces were mid-walk at a suspension
    bonsai                      \* a changeset on its way through serialization

repo == <<parents, tree>>
call == <<src, dst, src_path>>
walker == <<curr, target, curr_path, found>>
gca == <<base, split, base_path>>
ghost == <<iters, traced, walked>>
aside == <<inserted, other, overlap, bonsai>>
vars == <<parents, tree, pc, src, dst, src_path, curr, target, curr_path,
          found, base, split, base_path, result, failed, first, iters, traced,
          walked, inserted, other, overlap, bonsai>>

Commits == 1..Len(parents)

\* ------------------------------------------------------------ results
Pending == [tag |-> "Pending", path |-> NoPath]
None == [tag |-> "None", path |-> NoPath]
Some(p) == [tag |-> "Some", path |-> p]
Err(e) == [tag |-> e, path |-> NoPath]

\* Option and Result of the other values
Nothing == [some |-> FALSE]
Just(v) == [some |-> TRUE, value |-> v]
Ok(v) == [ok |-> TRUE, value |-> v]
Failure(e) == [ok |-> FALSE, error |-> e]

\* ------------------------------------------------------ DagAlgorithm
RECURSIVE Ancestors(_)
Ancestors(c) ==
    {c} \cup UNION {Ancestors(parents[c][i]) : i \in 1..Len(parents[c])}

is_ancestor(a, b) == a \in Ancestors(b)

range(roots, heads) ==
    {c \in Commits : is_ancestor(roots, c) /\ is_ancestor(c, heads)}

\* heads of a set: members with no strict descendant in the set
Heads(S) == {c \in S : \A d \in S : d = c \/ ~is_ancestor(c, d)}

\* the commits gca_one may return for {a, b}; empty when there is none
gca_one(a, b) == Heads(Ancestors(a) \cap Ancestors(b))

parent_names(c) == parents[c]

\* ------------------------------------------------------ tree manifests
EmptyTree == [p \in Paths |-> Absent]

Present(t, p) == t[p].hgid # 0

\* the tree the path-history primitive compares a commit with
FirstParentTree(c) ==
    IF parents[c] = <<>> THEN EmptyTree ELSE tree[parents[c][1]]

Modifies(c, p) == tree[c][p] # FirstParentTree(c)[p]

\* RenameTracer::next over a range: the first commit, in an order that
\* lists descendants before ancestors, that modifies the path.
RenameTracerNext(set, p) == Heads({c \in set : Modifies(c, p)})

\* members of a set with no strict ancestor in the set
Tails(S) == {c \in S : \A d \in S : d = c \/ ~is_ancestor(d, c)}

\* a locator that scans from the ancestor end of the range
trace_rename_commit_oldest(from, to, p) ==
    Tails({c \in range(from, to) : Modifies(c, p)})

\* a locator that is handed every ancestor of the descendant end of the range
trace_rename_commit_ancestors(from, to, p) == RenameTracerNext(Ancestors(to), p)

trace_rename_commit(from, to, p) == RenameTracerNext(range(from, to), p)

\* vertex_to_tree_manifest: the durable manifest of the commit's root tree
vertex_to_tree_manifest(commit) == tree[commit]

\* check_path: Some(path) when the commit's tree has the path, else None
check_path(commit, path) ==
    IF Present(vertex_to_tree_manifest(commit), path) THEN Some(path) ELSE None

\* ------------------------------------------------- rename metadata reader
Key(path, hgid) == [path |-> path, hgid |-> hgid]

\* file_reader.read_rename_metadata for one key: the predecessor path in the
\* blob's header, NoPath when the blob has none.  A blob is stored under the
\* hgid of the commit that created it.
RenameFromKey(key) == tree[key.hgid][key.path].from

EmptyMap == [k \in {} |-> NoPath]

\* an insert that keeps the value already under the key
insert_keep_first(map, k, v) ==
    [x \in DOMAIN map \cup {k} |-> IF x \in DOMAIN map THEN map[x] ELSE v]

\* HashMap::insert: a later value replaces the value already under the key
insert(map, k, v) ==
    [x \in DOMAIN map \cup {k} |-> IF x = k THEN v ELSE map[x]]

\* the error an item of the rename metadata stream can be
StoreError == "StoreError"

\* the stream file_reader.read_rename_metadata answers with: one item per
\* key, in the order of the keys; item bad is an error (none when bad = 0)
read_rename_metadata(keys, bad) ==
    [i \in DOMAIN keys |->
        IF i = bad
        THEN Failure(StoreError)
        ELSE Ok(<<keys[i], RenameFromKey(keys[i])>>)]

\* a loop that passes over the items that are errors
RenamedMetadataSkipErrors(renames, map) ==
    LET good == {i \in DOMAIN renames :
                    renames[i].ok /\ renames[i].value[2] # NoPath}
    IN  Ok([path \in DOMAIN map \cup {renames[i].value[1].path : i \in good} |->
              IF \E i \in good : renames[i].value[1].path = path
              THEN renames[CHOOSE i \in good : renames[i].value[1].path = path].value[2]
              ELSE map[path]])

\* the loop of read_renamed_metadata: `rename?` returns the first item that
\* is an error, a header that is present is inserted under the key's path
RECURSIVE RenamedMetadata(_, _)
RenamedMetadata(renames, map) ==
    IF renames = <<>>
    THEN Ok(map)
    ELSE LET rename == Head(renames)
         IN  IF ~rename.ok
             THEN rename
             ELSE LET key == rename.value[1]
                      rename_from_key == rename.value[2]
                  IN  RenamedMetadata(Tail(renames),
                        IF rename_from_key # NoPath
                        THEN insert(map, key.path, rename_from_key)
                        ELSE map)

read_renamed_metadata(keys, bad) ==
    RenamedMetadata(read_rename_metadata(keys, bad), EmptyMap)

\* ------------------------------------------------------- manifest differ
\* a differ that takes the LeftOnly entries of the diff
LeftOnly(old_tree, new_tree) ==
    {Key(p, old_tree[p].hgid) :
        p \in {q \in Paths : Present(old_tree, q) /\ ~Present(new_tree, q)}}

\* the Diff entries of variant RightOnly, as file keys
RightOnly(old_tree, new_tree) ==
    {Key(p, new_tree[p].hgid) :
        p \in {q \in Paths : Present(new_tree, q) /\ ~Present(old_tree, q)}}

\* the keys of a set in the order of the diff, which is the order of the paths
RECURSIVE InPathOrder(_)
InPathOrder(keys) ==
    IF keys = {} THEN <<>>
    ELSE LET least == CHOOSE k \in keys : \A j \in keys : k.path <= j.path
         IN  <<least>> \o InPathOrder(keys \ {least})

\* the batch find_renames sends to read_renamed_metadata
new_files(old_tree, new_tree) == InPathOrder(RightOnly(old_tree, new_tree))

\* find_renames when the rename metadata stream has no error
find_renames(old_tree, new_tree) ==
    read_renamed_metadata(new_files(old_tree, new_tree), 0).value

\* Iterator::collect::<HashMap<_, _>>: insert the pairs in sequence order
RECURSIVE collect(_, _)
collect(pairs, map) ==
    IF pairs = <<>> THEN map
    ELSE collect(Tail(pairs), insert(map, Head(pairs)[1], Head(pairs)[2]))

PairLess(a, b) == a[1] < b[1] \/ (a[1] = b[1] /\ a[2] < b[2])

\* Itertools::sorted: ascending order of the (old, new) tuples
RECURSIVE sorted(_)
sorted(S) ==
    IF S = {} THEN <<>>
    ELSE LET least == CHOOSE x \in S : \A y \in S : y = x \/ PairLess(x, y)
         IN  <<least>> \o sorted(S \ {least})

\* renames.into_iter().map(|(k, v)| (v, k)).sorted().collect()
Inverted(renames) ==
    collect(sorted({<<renames[k], k>> : k \in DOMAIN renames}), EmptyMap)

\* a differ that hands the forward walker the map it hands the backward one
find_renames_not_inverted(commit, direction) ==
    LET p1 == parent_names(commit)[1]
        renames == find_renames(vertex_to_tree_manifest(p1),
                                vertex_to_tree_manifest(commit))
    IN  IF direction = "Backward"
        THEN [renames |-> renames, next_commit |-> p1]
        ELSE [renames |-> renames, next_commit |-> commit]

\* find_renames_in_direction for a commit that has parents
find_renames_in_direction(commit, direction) ==
    LET p1 == parent_names(commit)[1]
        old_manifest == vertex_to_tree_manifest(p1)
        new_manifest == vertex_to_tree_manifest(commit)
        renames == find_renames(old_manifest, new_manifest)
    IN  IF direction = "Backward"
        THEN [renames |-> renames, next_commit |-> p1]
        ELSE [renames |-> Inverted(renames), next_commit |-> commit]

\* ----------------------------------------------- the walkers as functions
\* what trace_rename_backward returns on (target, curr, curr_path) when every
\* collaborator call succeeds: the loop, one recursion per pass
RECURSIVE BackwardOutcomes(_, _, _)
BackwardOutcomes(to, from, path) ==
    LET found_commits == trace_rename_commit(to, from, path)
    IN  IF found_commits = {}
        THEN {check_path(to, path)}
        ELSE UNION {
            IF rename_commit = to
            THEN {Some(path)}
            ELSE IF parent_names(rename_commit) = <<>>
            THEN {Err("NoParents")}
            ELSE LET differ == find_renames_in_direction(rename_commit, "Backward")
                 IN  IF path \in DOMAIN differ.renames
                     THEN BackwardOutcomes(to, differ.next_commit,
                                           differ.renames[path])
                     ELSE {None}
            : rename_commit \in found_commits}

\* what trace_rename_forward returns on (curr, target, curr_path) when every
\* collaborator call succeeds
RECURSIVE ForwardOutcomes(_, _, _)
ForwardOutcomes(from, to, path) ==
    LET found_commits == trace_rename_commit(from, to, path)
    IN  IF found_commits = {}
        THEN {check_path(to, path)}
        ELSE UNION {
            IF rename_commit = from
            THEN {Some(path)}
            ELSE IF parent_names(rename_commit) = <<>>
            THEN {Err("NoParents")}
            ELSE LET differ == find_renames_in_direction(rename_commit, "Forward")
                 IN  IF path \in DOMAIN differ.renames
                     THEN ForwardOutcomes(differ.next_commit, to,
                                          differ.renames[path])
                     ELSE {None}
            : rename_commit \in found_commits}

\* ------------------------------------------------ building the repository
Building == pc = "idle" /\ Len(parents) < MaxCommits

NewCommit == Len(parents) + 1

Roots == {c \in Commits : parents[c] = <<>>}

Blob(from) == [hgid |-> NewCommit, from |-> from]

Frozen ==
    UNCHANGED <<pc, call, walker, gca, result, failed, first, ghost, aside>>

\* the trees a parentless commit is given: no file or one file
RootTrees == {S \in SUBSET Paths : Cardinality(S) <= 1}

\* a parentless commit whose tree holds the files of S, none with a header
AddRoot(S) ==
    /\ Building
    /\ Cardinality(Roots) < MaxRoots
    /\ parents' = Append(parents, <<>>)
    /\ tree' = Append(tree, [p \in Paths |-> IF p \in S THEN Blob(NoPath) ELSE Absent])
    /\ Frozen

\* a commit that changes nothing
CommitNoOp(par) ==
    /\ Building
    /\ parents' = Append(parents, <<par>>)
    /\ tree' = Append(tree, tree[par])
    /\ Frozen

\* a commit that changes the content of p
CommitModify(par, p) ==
    /\ Building
    /\ Present(tree[par], p)
    /\ parents' = Append(parents, <<par>>)
    /\ tree' = Append(tree, [tree[par] EXCEPT ![p] = Blob(NoPath)])
    /\ Frozen

\* a commit that removes p
CommitDelete(par, p) ==
    /\ Building
    /\ Present(tree[par], p)
    /\ parents' = Append(parents, <<par>>)
    /\ tree' = Append(tree, [tree[par] EXCEPT ![p] = Absent])
    /\ Frozen

\* a commit that adds p; its header names from (NoPath: no header; a path
\* of the parent: a copy; p itself: a header naming its own path)
CommitAdd(par, p, from) ==
    /\ Building
    /\ ~Present(tree[par], p)
    /\ from \in {NoPath, p} \cup {q \in Paths : Present(tree[par], q)}
    /\ parents' = Append(parents, <<par>>)
    /\ tree' = Append(tree, [tree[par] EXCEPT ![p] = Blob(from)])
    /\ Frozen

\* a commit that renames p to every path of Q (one path: a plain rename)
CommitRename(par, p, Q) ==
    /\ Building
    /\ Present(tree[par], p)
    /\ Q # {}
    /\ \A q \in Q : ~Present(tree[par], q)
    /\ parents' = Append(parents, <<par>>)
    /\ tree' = Append(tree, [q \in Paths |->
                    IF q = p THEN Absent
                    ELSE IF q \in Q THEN Blob(p) ELSE tree[par][q]])
    /\ Frozen

\* a merge commit that takes the tree of its first or of its second parent
CommitMerge(p1, p2, side) ==
    /\ Building
    /\ p1 # p2
    /\ parents' = Append(parents, <<p1, p2>>)
    /\ tree' = Append(tree, IF side = 1 THEN tree[p1] ELSE tree[p2])
    /\ Frozen

BuildStep ==
    \/ \E S \in RootTrees : AddRoot(S)
    \/ \E par \in Commits : CommitNoOp(par)
    \/ \E par \in Commits, p \in Paths : CommitModify(par, p)
    \/ \E par \in Commits, p \in Paths : CommitDelete(par, p)
    \/ \E par \in Commits, p \in Paths, from \in Paths \cup {NoPath} :
            CommitAdd(par, p, from)
    \/ \E par \in Commits, p \in Paths, Q \in SUBSET Paths :
            CommitRename(par, p, Q)
    \/ \E p1 \in Commits, p2 \in Commits, side \in {1, 2} :
            CommitMerge(p1, p2, side)

\* ------------------------------------------------------------ the trace
NoCall == [src |-> 0, dst |-> 0, src_path |-> NoPath,
           result |-> Pending, base_path |-> NoPath]

NoFound ==
    [commit |-> 0, renames |-> EmptyMap, next_commit |-> 0,
     keys |-> <<>>, bad |-> 0, metadata |-> Ok(EmptyMap)]

\* the entry of a walker: (curr, target, curr_path) of the direction.
\* seen_paths and seen_range are what the trace has walked so far.
StartWalk(direction, from, to, path, seen_paths, seen_range) ==
    /\ pc' = direction
    /\ curr' = (IF direction = "forward" THEN from ELSE to)
    /\ target' = (IF direction = "forward" THEN to ELSE from)
    /\ curr_path' = path
    /\ traced' = seen_paths \cup {path}
    /\ walked' = seen_range \cup range(from, to)

\* The calls made: a trace between two commits that every commit of the
\* repository is an ancestor of (the others take no part in it), and after a
\* trace from an ancestor that returned a path, the trace of that path the
\* other way round.
Callable(s, d, path) ==
    \/ /\ pc = "idle"
       /\ Ancestors(s) \cup Ancestors(d) = Commits
    \/ /\ pc = "done"
       /\ first = NoCall /\ inserted = 0
       /\ result.tag = "Some"
       /\ is_ancestor(src, dst)
       /\ s = dst /\ d = src /\ path = result.path
    \/ \* the same trace again, once a commit has been inserted
       /\ pc = "done"
       /\ first = NoCall /\ inserted # 0
       /\ s = src /\ d = dst /\ path = src_path

\* a step that takes the manifest of curr out of the tree store
EvictsTree ==
    /\ parents' = parents
    /\ tree' = [c \in DOMAIN tree |-> IF c = curr THEN EmptyTree ELSE tree[c]]

\* the collaborators are only read: every method takes &self and calls the
\* query operations of the DAG, the root tree reader and the two stores
ReadOnly == UNCHANGED repo

\* the errors a collaborator call can fail with: a failure of the store or
\* of the DAG, and no root tree id for a commit whose manifest is needed
RootTreeIdNotFound == "RootTreeIdNotFound"
NoFailure == "none"

\* what vertex_to_tree_manifest, the manifest lookup, the diff and the rename
\* metadata stream can fail with
TreeFaults == {StoreError, RootTreeIdNotFound}

Done == pc = "done"

\* the trace has returned and every collaborator call it made succeeded
Answered == Done /\ failed = NoFailure

\* a dispatcher that reports a missing common ancestor as an error
ReturnNoWalkAsError(res) ==
    /\ pc' = "done"
    /\ result' = (IF res = None THEN Err("NoCommonAncestor") ELSE res)
    /\ curr' = 0 /\ target' = 0 /\ curr_path' = NoPath
    /\ base' = 0 /\ split' = FALSE /\ base_path' = NoPath
    /\ traced' = {} /\ walked' = {}

\* trace_rename returns res without having called a walker
ReturnNoWalk(res) ==
    /\ pc' = "done"
    /\ result' = res
    /\ curr' = 0 /\ target' = 0 /\ curr_path' = NoPath
    /\ base' = 0 /\ split' = FALSE /\ base_path' = NoPath
    /\ traced' = {} /\ walked' = {}

\* trace_rename up to its first walker call
trace_rename(s, d, path) ==
    /\ Callable(s, d, path)
    /\ first' = (IF pc = "idle" THEN NoCall
                 ELSE [src |-> src, dst |-> dst, src_path |-> src_path,
                       result |-> result, base_path |-> base_path])
    /\ src' = s /\ dst' = d /\ src_path' = path
    /\ found' = NoFound
    /\ iters' = 0
    /\ \/ \* dag.is_ancestor or dag.gca_one fails
          /\ failed' = StoreError
          /\ ReturnNoWalk(Err(StoreError))
       \/ /\ failed' = NoFailure
          /\ IF is_ancestor(s, d)
             THEN /\ StartWalk("forward", s, d, path, {}, {})
                  /\ base' = 0 /\ split' = FALSE /\ base_path' = NoPath
                  /\ result' = Pending
             ELSE IF is_ancestor(d, s)
             THEN /\ StartWalk("backward", d, s, path, {}, {})
                  /\ base' = 0 /\ split' = FALSE /\ base_path' = NoPath
                  /\ result' = Pending
             ELSE IF gca_one(s, d) = {}
             THEN ReturnNoWalk(None)
             ELSE \E b \in gca_one(s, d) :
                  /\ StartWalk("backward", b, s, path, {}, {})
                  /\ base' = b
                  /\ split' = TRUE
                  /\ base_path' = NoPath
                  /\ result' = Pending
    /\ ReadOnly
    /\ UNCHANGED aside

\* a walker returns res to trace_rename
Return(res) ==
    /\ pc' = "done"
    /\ result' = res
    /\ UNCHANGED <<curr, target, curr_path, gca, traced, walked>>

\* a GCA branch that turns every backward result but a path into None
ReturnBackwardSwallow(res) ==
    IF split
    THEN IF res.tag = "Some"
         THEN /\ StartWalk("forward", base, dst, res.path, traced, walked)
              /\ base_path' = res.path
              /\ split' = FALSE
              /\ UNCHANGED <<base, result>>
         ELSE Return(None)
    ELSE Return(res)

\* a GCA branch that returns what the backward walk returned
ReturnBackwardNoForward(res) == Return(res)

\* trace_rename_backward returns res: to the caller, or to the GCA branch of
\* trace_rename, which goes on with the forward walk from base
ReturnBackward(res) ==
    IF split /\ res.tag = "Some"
    THEN /\ StartWalk("forward", base, dst, res.path, traced, walked)
         /\ base_path' = res.path
         /\ split' = FALSE
         /\ UNCHANGED <<base, result>>
    ELSE Return(res)

\* a loop pass that takes the new path and leaves curr where it was
AdvanceStuck(next_path, next_commit) ==
    /\ curr' = curr
    /\ curr_path' = next_path
    /\ traced' = traced \cup {next_path}
    /\ UNCHANGED <<pc, target, gca, result, walked>>

\* the end of a loop pass that found a rename of curr_path
Advance(next_path, next_commit) ==
    /\ curr' = next_commit
    /\ curr_path' = next_path
    /\ traced' = traced \cup {next_path}
    /\ UNCHANGED <<pc, target, gca, result, walked>>

\* what the calls of find_renames_in_direction on a commit can fail with
\* before the rename metadata is read: parent_names, and for a commit with
\* parents the manifests and the diff
DifferFaults(commit) ==
    IF parent_names(commit) = <<>> THEN {StoreError} ELSE TreeFaults

\* one pass of the loop of trace_rename_backward
trace_rename_backward ==
    /\ pc = "backward"
    /\ iters' = iters + 1
    /\ \/ \* dag.range or the path history fails
          /\ failed' = StoreError
          /\ ReturnBackward(Err(StoreError))
          /\ found' = NoFound
       \/ LET found_commits == trace_rename_commit(target, curr, curr_path)
          IN  IF found_commits = {}
              THEN /\ found' = NoFound
                   /\ \/ /\ ReturnBackward(check_path(target, curr_path))
                         /\ UNCHANGED failed
                      \/ \E e \in TreeFaults :
                            /\ failed' = e
                            /\ ReturnBackward(Err(e))
              ELSE \E rename_commit \in found_commits :
                   IF rename_commit = target
                   THEN /\ ReturnBackward(Some(curr_path))
                        /\ found' = [NoFound EXCEPT !.commit = rename_commit]
                        /\ UNCHANGED failed
                   ELSE \/ \E e \in DifferFaults(rename_commit) :
                             /\ failed' = e
                             /\ ReturnBackward(Err(e))
                             /\ found' = [NoFound EXCEPT !.commit = rename_commit]
                        \/ IF parent_names(rename_commit) = <<>>
                           THEN /\ ReturnBackward(Err("NoParents"))
                                /\ found' = [NoFound EXCEPT !.commit = rename_commit]
                                /\ UNCHANGED failed
                           ELSE LET keys == new_files(
                                        vertex_to_tree_manifest(parent_names(rename_commit)[1]),
                                        vertex_to_tree_manifest(rename_commit))
                                IN  \E bad \in 0..Len(keys) :
                                    LET metadata == read_renamed_metadata(keys, bad)
                                    IN  IF ~metadata.ok
                                        THEN /\ failed' = metadata.error
                                             /\ ReturnBackward(Err(metadata.error))
                                             /\ found' = [NoFound EXCEPT
                                                             !.commit = rename_commit,
                                                             !.keys = keys,
                                                             !.bad = bad,
                                                             !.metadata = metadata]
                                        ELSE LET differ == find_renames_in_direction(rename_commit, "Backward")
                                             IN  /\ found' = [commit |-> rename_commit,
                                                              renames |-> differ.renames,
                                                              next_commit |-> differ.next_commit,
                                                              keys |-> keys,
                                                              bad |-> bad,
                                                              metadata |-> metadata]
                                                 /\ UNCHANGED failed
                                                 /\ IF curr_path \in DOMAIN differ.renames
                                                    THEN Advance(differ.renames[curr_path], differ.next_commit)
                                                    ELSE ReturnBackward(None)
    /\ ReadOnly
    /\ UNCHANGED <<call, first, aside>>

\* one pass of the loop of trace_rename_forward
trace_rename_forward ==
    /\ pc = "forward"
    /\ iters' = iters + 1
    /\ \/ \* dag.range or the path history fails
          /\ failed' = StoreError
          /\ Return(Err(StoreError))
          /\ found' = NoFound
       \/ LET found_commits == trace_rename_commit(curr, target, curr_path)
          IN  IF found_commits = {}
              THEN /\ found' = NoFound
                   /\ \/ /\ Return(check_path(target, curr_path))
                         /\ UNCHANGED failed
                      \/ \E e \in TreeFaults :
                            /\ failed' = e
                            /\ Return(Err(e))
              ELSE \E rename_commit \in found_commits :
                   IF rename_commit = curr
                   THEN /\ Return(Some(curr_path))
                        /\ found' = [NoFound EXCEPT !.commit = rename_commit]
                        /\ UNCHANGED failed
                   ELSE \/ \E e \in DifferFaults(rename_commit) :
                             /\ failed' = e
                             /\ Return(Err(e))
                             /\ found' = [NoFound EXCEPT !.commit = rename_commit]
                        \/ IF parent_names(rename_commit) = <<>>
                           THEN /\ Return(Err("NoParents"))
                                /\ found' = [NoFound EXCEPT !.commit = rename_commit]
                                /\ UNCHANGED failed
                           ELSE LET keys == new_files(
                                        vertex_to_tree_manifest(parent_names(rename_commit)[1]),
                                        vertex_to_tree_manifest(rename_commit))
                                IN  \E bad \in 0..Len(keys) :
                                    LET metadata == read_renamed_metadata(keys, bad)
                                    IN  IF ~metadata.ok
                                        THEN /\ failed' = metadata.error
                                             /\ Return(Err(metadata.error))
                                             /\ found' = [NoFound EXCEPT
                                                             !.commit = rename_commit,
                                                             !.keys = keys,
                                                             !.bad = bad,
                                                             !.metadata = metadata]
                                        ELSE LET differ == find_renames_in_direction(rename_commit, "Forward")
                                             IN  /\ found' = [commit |-> rename_commit,
                                                              renames |-> differ.renames,
                                                              next_commit |-> differ.next_commit,
                                                              keys |-> keys,
                                                              bad |-> bad,
                                                              metadata |-> metadata]
                                                 /\ UNCHANGED failed
                                                 /\ IF curr_path \in DOMAIN differ.renames
                                                    THEN Advance(differ.renames[curr_path], differ.next_commit)
                                                    ELSE Return(None)
    /\ ReadOnly
    /\ UNCHANGED <<call, first, aside>>

\* the locals of the running trace
Trace ==
    [pc |-> pc, src |-> src, dst |-> dst, src_path |-> src_path,
     curr |-> curr, target |-> target, curr_path |-> curr_path,
     found |-> found, base |-> base, split |-> split, base_path |-> base_path,
     result |-> result, failed |-> failed, first |-> first,
     iters |-> iters, traced |-> traced, walked |-> walked]

\* the locals of a trace that has not been called
NoTrace ==
    [pc |-> "idle", src |-> 0, dst |-> 0, src_path |-> NoPath,
     curr |-> 0, target |-> 0, curr_path |-> NoPath,
     found |-> NoFound, base |-> 0, split |-> FALSE, base_path |-> NoPath,
     result |-> Pending, failed |-> NoFailure, first |-> NoCall,
     iters |-> 0, traced |-> {}, walked |-> {}]

NoChangeset == [step |-> "none"]

\* no trace has been called
IdleTrace ==
    /\ pc = "idle"
    /\ src = 0 /\ dst = 0 /\ src_path = NoPath
    /\ curr = 0 /\ target = 0 /\ curr_path = NoPath
    /\ base = 0 /\ split = FALSE /\ base_path = NoPath
    /\ found = NoFound
    /\ result = Pending
    /\ failed = NoFailure
    /\ first = NoCall
    /\ iters = 0
    /\ traced = {}
    /\ walked = {}
    /\ inserted = 0
    /\ other = NoTrace
    /\ overlap = FALSE

Init ==
    /\ parents = <<>>
    /\ tree = <<>>
    /\ IdleTrace
    /\ bonsai = NoChangeset

\* ------------------------------------------------- a forked repository
\* the trees of a child, commit n, of a commit with tree t: the same tree, or
\* one more file, with or without a rename header
ChildTrees(t, n) ==
    {t} \cup UNION {
        {[t EXCEPT ![p] = [hgid |-> n, from |-> f]] :
            f \in {NoPath, p} \cup {q \in Paths : Present(t, q)}}
        : p \in {q \in Paths : ~Present(t, q)}}

\* a root with one file, a child that keeps or deletes the file, and two
\* children of that child
InitFork ==
    /\ \E q \in Paths, deleted \in BOOLEAN :
         LET t1 == [EmptyTree EXCEPT ![q] = [hgid |-> 1, from |-> NoPath]]
             t2 == IF deleted THEN EmptyTree ELSE t1
         IN  \E t3 \in ChildTrees(t2, 3), t4 \in ChildTrees(t2, 4) :
                /\ parents = <<<<>>, <<1>>, <<2>>, <<2>>>>
                /\ tree = <<t1, t2, t3, t4>>
    /\ IdleTrace
    /\ bonsai = NoChangeset

\* the commits of S that have par as a parent
Children(par, S) ==
    {c \in S : \E i \in 1..Len(parents[c]) : parents[c][i] = par}

\* a commit that changes nothing is inserted after par, between par and
\* kids: it is a child of par and takes par's place as the parent of kids
InsertNoOp(par, kids) ==
    /\ Answered /\ first = NoCall /\ inserted = 0
    /\ other = NoTrace
    /\ par \in walked
    /\ kids # {} /\ kids \subseteq Children(par, walked)
    /\ parents' = Append(
            [c \in DOMAIN parents |->
                IF c \in kids
                THEN [i \in DOMAIN parents[c] |->
                        IF parents[c][i] = par THEN NewCommit ELSE parents[c][i]]
                ELSE parents[c]],
            <<par>>)
    /\ tree' = Append(tree, tree[par])
    /\ inserted' = NewCommit
    /\ UNCHANGED <<pc, call, walker, gca, result, failed, first, ghost,
                   other, overlap, bonsai>>

Next ==
    \/ BuildStep
    \/ \E s \in Commits, d \in Commits, path \in Paths : trace_rename(s, d, path)
    \/ trace_rename_backward
    \/ trace_rename_forward

Spec == Init /\ [][Next]_vars

\* ------------------------------------------------------ two traces
\* a trace that is resumed with the path the other trace was at: the
\* walker's path kept in the DagCopyTrace rather than in the future
SwitchSharedPath ==
    /\ pc # "idle"
    /\ other' = Trace
    /\ pc' = other.pc
    /\ src' = other.src /\ dst' = other.dst /\ src_path' = other.src_path
    /\ curr' = other.curr /\ target' = other.target
    /\ curr_path' = (IF curr_path = NoPath THEN other.curr_path ELSE curr_path)
    /\ found' = other.found
    /\ base' = other.base /\ split' = other.split
    /\ base_path' = other.base_path
    /\ result' = other.result /\ failed' = other.failed
    /\ first' = other.first
    /\ iters' = other.iters /\ traced' = other.traced
    /\ walked' = other.walked
    /\ overlap' = (overlap \/ (pc \in {"forward", "backward"}
                               /\ other.pc \in {"forward", "backward"}))
    /\ UNCHANGED <<repo, inserted, bonsai>>

\* the executor suspends the running trace at an await and resumes the other
\* one (or lets it start): the locals of a trace, the walker's tuple among
\* them, live in its own future and are all the state it has
Switch ==
    /\ pc # "idle"
    /\ other' = Trace
    /\ pc' = other.pc
    /\ src' = other.src /\ dst' = other.dst /\ src_path' = other.src_path
    /\ curr' = other.curr /\ target' = other.target
    /\ curr_path' = other.curr_path
    /\ found' = other.found
    /\ base' = other.base /\ split' = other.split
    /\ base_path' = other.base_path
    /\ result' = other.result /\ failed' = other.failed
    /\ first' = other.first
    /\ iters' = other.iters /\ traced' = other.traced
    /\ walked' = other.walked
    /\ overlap' = (overlap \/ (pc \in {"forward", "backward"}
                               /\ other.pc \in {"forward", "backward"}))
    /\ UNCHANGED <<repo, inserted, bonsai>>

\* two traces of a forked repository, interleaved at their awaits
NextPair ==
    \/ \E s \in Commits, d \in Commits, path \in Paths : trace_rename(s, d, path)
    \/ trace_rename_backward
    \/ trace_rename_forward
    \/ Switch

SpecPair == InitFork /\ [][NextPair]_vars

\* what trace_rename returns on (s, d, path) when it runs alone and every
\* collaborator call succeeds
Outcomes(s, d, path) ==
    IF is_ancestor(s, d)
    THEN ForwardOutcomes(s, d, path)
    ELSE IF is_ancestor(d, s)
    THEN BackwardOutcomes(d, s, path)
    ELSE IF gca_one(s, d) = {}
    THEN {None}
    ELSE UNION { UNION { IF bp.tag = "Some"
                         THEN ForwardOutcomes(b, d, bp.path)
                         ELSE {bp}
                         : bp \in BackwardOutcomes(b, s, path)}
                 : b \in gca_one(s, d)}

\* traces of a forked repository, before and after a commit is inserted
NextInsert ==
    \/ \E par \in Commits, kids \in SUBSET Commits : InsertNoOp(par, kids)
    \/ \E s \in Commits, d \in Commits, path \in Paths : trace_rename(s, d, path)
    \/ trace_rename_backward
    \/ trace_rename_forward

SpecInsert == InitFork /\ [][NextInsert]_vars

\* every trace that is started runs on
FairSpec == Spec /\ WF_vars(trace_rename_backward) /\ WF_vars(trace_rename_forward)

TypeOK ==
    /\ Len(parents) = Len(tree)
    /\ Len(parents) <= MaxCommits
    /\ pc \in {"idle", "forward", "backward", "done"}
    /\ curr_path \in Paths \cup {NoPath}

\* ------------------------------------------------- bonsai changesets
\* ChangesetId: a Blake2 hash; its thrift form is the tagged bytes, which
\* from_thrift accepts when they are a hash
ChangesetIds == {[blake2 |-> n] : n \in 1..NIds}
ChangesetId_into_thrift(id) == [idtype |-> "Blake2", bytes |-> id.blake2]
ChangesetId_from_thrift(t) ==
    IF t.idtype = "Blake2" /\ t.bytes \in 1..NIds
    THEN Ok([blake2 |-> t.bytes])
    ELSE Failure("InvalidThrift ChangesetId")

\* DateTime: a timestamp and a timezone offset of less than a day
DayOfSeconds == 86400
DateTimes ==
    {[secs |-> 1234567890, tz |-> 36800], [secs |-> 1500000000, tz |-> 0 - 36800]}
DateTime_into_thrift(dt) == [timestamp_secs |-> dt.secs, tz_offset_secs |-> dt.tz]
DateTime_from_thrift(t) ==
    IF t.tz_offset_secs > 0 - DayOfSeconds /\ t.tz_offset_secs < DayOfSeconds
    THEN Ok([secs |-> t.timestamp_secs, tz |-> t.tz_offset_secs])
    ELSE Failure("InvalidThrift DateTime")

\* MPath: a non-empty list of path elements; its thrift form is the list
MPaths == {[elements |-> <<e>>] : e \in 1..NFiles}
MPath_into_thrift(f) == f.elements
MPath_from_thrift(t) ==
    IF t # <<>> THEN Ok([elements |-> t]) ELSE Failure("InvalidThrift MPath")

\* FileChange: content id, file type, size and optional copy info (a path and
\* a changeset); an absent change is a deletion
FileChanges ==
    {[content_id |-> 1, file_type |-> "Regular", size |-> 42, copy_from |-> c] :
        c \in {Nothing} \cup {Just(<<f, id>>) : f \in MPaths, id \in ChangesetIds}}
FileChange_into_thrift_opt(c) ==
    IF c = Nothing
    THEN Nothing
    ELSE Just([content_id |-> c.value.content_id,
               file_type |-> c.value.file_type,
               size |-> c.value.size,
               copy_from |-> IF c.value.copy_from = Nothing
                             THEN Nothing
                             ELSE Just([file |-> MPath_into_thrift(c.value.copy_from.value[1]),
                                        cs_id |-> ChangesetId_into_thrift(c.value.copy_from.value[2])])])
FileChange_from_thrift_opt(fc_opt, mpath) ==
    IF fc_opt = Nothing
    THEN Ok(Nothing)
    ELSE LET fc == fc_opt.value
             copy_from ==
                IF fc.copy_from = Nothing
                THEN Ok(Nothing)
                ELSE LET file == MPath_from_thrift(fc.copy_from.value.file)
                         cs_id == ChangesetId_from_thrift(fc.copy_from.value.cs_id)
                     IN  IF file.ok /\ cs_id.ok
                         THEN Ok(Just(<<file.value, cs_id.value>>))
                         ELSE Failure("InvalidThrift FileChange")
         IN  IF copy_from.ok /\ fc.size >= 0
             THEN Ok(Just([content_id |-> fc.content_id,
                           file_type |-> fc.file_type,
                           size |-> fc.size,
                           copy_from |-> copy_from.value]))
             ELSE Failure("InvalidThrift FileChange")

\* the compact protocol: the fields that are set, each with its field id
compact_protocol_serialize(tc) ==
    <<<<1, tc.parents>>, <<2, tc.author>>>>
    \o (IF tc.author_date = Nothing THEN <<>> ELSE <<<<3, tc.author_date.value>>>>)
    \o (IF tc.committer = Nothing THEN <<>> ELSE <<<<4, tc.committer.value>>>>)
    \o (IF tc.committer_date = Nothing THEN <<>> ELSE <<<<5, tc.committer_date.value>>>>)
    \o <<<<6, tc.message>>, <<7, tc.extra>>, <<8, tc.file_changes>>>>

\* the field with the given id, if the data holds it
Field(data, id) ==
    LET at == {i \in DOMAIN data : data[i][1] = id}
    IN  IF at = {} THEN Nothing ELSE Just(data[CHOOSE i \in at : TRUE][2])

compact_protocol_deserialize(data) ==
    IF \A id \in {1, 2, 6, 7, 8} : Field(data, id) # Nothing
    THEN Ok([parents |-> Field(data, 1).value,
             author |-> Field(data, 2).value,
             author_date |-> Field(data, 3),
             committer |-> Field(data, 4),
             committer_date |-> Field(data, 5),
             message |-> Field(data, 6).value,
             extra |-> Field(data, 7).value,
             file_changes |-> Field(data, 8).value])
    ELSE Failure("ProtocolError")

\* a serialization that leaves the committer date out
into_thrift_without_committer_date(cs) ==
    [parents |-> [i \in DOMAIN cs.parents |-> ChangesetId_into_thrift(cs.parents[i])],
     author |-> cs.author,
     author_date |-> Just(DateTime_into_thrift(cs.author_date)),
     committer |-> cs.committer,
     committer_date |-> Nothing,
     message |-> cs.message,
     extra |-> cs.extra,
     file_changes |->
        [t \in {MPath_into_thrift(f) : f \in DOMAIN cs.file_changes} |->
            FileChange_into_thrift_opt(
                cs.file_changes[CHOOSE f \in DOMAIN cs.file_changes :
                                    MPath_into_thrift(f) = t])]]

into_thrift(cs) ==
    [parents |-> [i \in DOMAIN cs.parents |-> ChangesetId_into_thrift(cs.parents[i])],
     author |-> cs.author,
     author_date |-> Just(DateTime_into_thrift(cs.author_date)),
     committer |-> cs.committer,
     committer_date |-> IF cs.committer_date = Nothing
                        THEN Nothing
                        ELSE Just(DateTime_into_thrift(cs.committer_date.value)),
     message |-> cs.message,
     extra |-> cs.extra,
     file_changes |->
        [t \in {MPath_into_thrift(f) : f \in DOMAIN cs.file_changes} |->
            FileChange_into_thrift_opt(
                cs.file_changes[CHOOSE f \in DOMAIN cs.file_changes :
                                    MPath_into_thrift(f) = t])]]

from_thrift(tc) ==
    LET parent == [i \in DOMAIN tc.parents |-> ChangesetId_from_thrift(tc.parents[i])]
        author_date ==
            IF tc.author_date = Nothing
            THEN Failure("missing author date field")
            ELSE DateTime_from_thrift(tc.author_date.value)
        committer_date ==
            IF tc.committer_date = Nothing
            THEN Ok(Nothing)
            ELSE LET dt == DateTime_from_thrift(tc.committer_date.value)
                 IN  IF dt.ok THEN Ok(Just(dt.value)) ELSE dt
        mpath == [f \in DOMAIN tc.file_changes |-> MPath_from_thrift(f)]
        fc_opt == [f \in DOMAIN tc.file_changes |->
                    IF mpath[f].ok
                    THEN FileChange_from_thrift_opt(tc.file_changes[f], mpath[f].value)
                    ELSE mpath[f]]
    IN  IF /\ \A i \in DOMAIN tc.parents : parent[i].ok
           /\ author_date.ok
           /\ committer_date.ok
           /\ \A f \in DOMAIN tc.file_changes : fc_opt[f].ok
        THEN Ok([parents |-> [i \in DOMAIN tc.parents |-> parent[i].value],
                 author |-> tc.author,
                 author_date |-> author_date.value,
                 committer |-> tc.committer,
                 committer_date |-> committer_date.value,
                 message |-> tc.message,
                 extra |-> tc.extra,
                 file_changes |->
                    [m \in {mpath[f].value : f \in DOMAIN tc.file_changes} |->
                        fc_opt[CHOOSE f \in DOMAIN tc.file_changes :
                                   mpath[f].value = m].value]])
        ELSE Failure("InvalidThrift BonsaiChangeset")

from_blob(t) ==
    LET thrift_tc == compact_protocol_deserialize(t)
    IN  IF thrift_tc.ok
        THEN from_thrift(thrift_tc.value)
        ELSE Failure("BlobDeserializeError BonsaiChangeset")

\* the id of a blob is the hash of its data
ChangesetIdContext(data) == [blake2 |-> data]

into_blob(cs) ==
    LET thrift == into_thrift(cs)
        data == compact_protocol_serialize(thrift)
        id == ChangesetIdContext(data)
    IN  [id |-> id, data |-> data]

\* the sequences over S of length at most n
RECURSIVE SeqsUpTo(_, _)
SeqsUpTo(S, n) ==
    IF n = 0
    THEN {<<>>}
    ELSE LET shorter == SeqsUpTo(S, n - 1)
         IN  shorter \cup {Append(q, x) : q \in shorter, x \in S}

\* the maps from some of the keys to the values
Maps(keys, values) == UNION {[K -> values] : K \in SUBSET keys}

\* the changesets that are generated: up to MaxParents parents, optional
\* committer and committer date, deletions, changes and copies
BonsaiChangesets ==
    [parents : SeqsUpTo(ChangesetIds, MaxParents),
     author : {"foo"},
     author_date : DateTimes,
     committer : {Nothing, Just("bar")},
     committer_date : {Nothing} \cup {Just(dt) : dt \in DateTimes},
     message : {"Commit message"},
     extra : Maps({"key"}, {"value"}),
     file_changes : Maps(MPaths, {Nothing} \cup {Just(fc) : fc \in FileChanges})]

InitBonsai ==
    /\ parents = <<>>
    /\ tree = <<>>
    /\ IdleTrace
    /\ \E cs \in BonsaiChangesets : bonsai = [step |-> "new", cs |-> cs]

\* cs.clone().into_thrift(), then from_thrift of what it gave
thrift_roundtrip ==
    /\ \/ /\ bonsai.step = "new"
          /\ bonsai' = [step |-> "thrift", cs |-> bonsai.cs,
                        thrift_cs |-> into_thrift(bonsai.cs)]
       \/ /\ bonsai.step = "thrift"
          /\ bonsai' = [step |-> "read", via |-> "thrift", cs |-> bonsai.cs,
                        cs2 |-> from_thrift(bonsai.thrift_cs)]
    /\ UNCHANGED <<repo, pc, call, walker, gca, result, failed, first, ghost,
                   inserted, other, overlap>>

\* cs.clone().into_blob(), then from_blob of the blob's data
blob_roundtrip ==
    /\ \/ /\ bonsai.step = "new"
          /\ bonsai' = [step |-> "blob", cs |-> bonsai.cs,
                        blob |-> into_blob(bonsai.cs)]
       \/ /\ bonsai.step = "blob"
          /\ bonsai' = [step |-> "read", via |-> "blob", cs |-> bonsai.cs,
                        cs2 |-> from_blob(bonsai.blob.data)]
    /\ UNCHANGED <<repo, pc, call, walker, gca, result, failed, first, ghost,
                   inserted, other, overlap>>

NextBonsai ==
    \/ thrift_roundtrip
    \/ blob_roundtrip

SpecBonsai == InitBonsai /\ [][NextBonsai]_vars

\* ------------------------------------------------- vocabulary of the claims

Related == is_ancestor(src, dst) \/ is_ancestor(dst, src)

\* the ancestor end and the descendant end of a trace between related commits
Lo == IF is_ancestor(src, dst) THEN src ELSE dst
Hi == IF is_ancestor(src, dst) THEN dst ELSE src

\* every commit the trace may look at
TraversedRange ==
    IF Related THEN range(Lo, Hi)
    ELSE IF base = 0 THEN {}
    ELSE range(base, src) \cup range(base, dst)

\* the new files of a commit whose rename header names a
NewNames(c, a) ==
    {k \in Paths : /\ Present(tree[c], k)
                   /\ ~Present(FirstParentTree(c), k)
                   /\ tree[c][k].from = a}

Removes(c, p) == Present(FirstParentTree(c), p) /\ ~Present(tree[c], p)

\* c deletes p: the path goes and no new file of c names it as predecessor
Deletes(c, p) == Removes(c, p) /\ NewNames(c, p) = {}

\* c changes the content of p and nothing else
OnlyChangesContent(c, p) ==
    /\ Present(FirstParentTree(c), p) /\ Present(tree[c], p)
    /\ \A q \in Paths : (tree[c][q] # FirstParentTree(c)[q]) <=> (q = p)

Linear(lo, hi) == \A c \in range(lo, hi) : Len(parents[c]) <= 1

Min(S) == CHOOSE x \in S : \A y \in S : x <= y
Max(S) == CHOOSE x \in S : \A y \in S : x >= y

\* ---------------------------------------------------------------- C1
\* C1 (as claimed): a trace from a commit to itself returns Some(p) when p is
\* in the commit's tree and None when it is not.
C1_Identity ==
    (Answered /\ src = dst) => result = check_path(src, src_path)

\* ---------------------------------------------------------------- C2
\* C2 (as claimed): when every commit after the ancestor end only changes the
\* content of p, the trace between the two ends returns Some(p).
C2_ContentChangeKeepsPath ==
    (/\ Answered /\ Related /\ src # dst
     /\ Linear(Lo, Hi)
     /\ \A c \in range(Lo, Hi) \ {Lo} : OnlyChangesContent(c, src_path))
    => result = Some(src_path)

\* ---------------------------------------------------------------- C3
\* the forward walker has just asked the differ about commit c
DifferForward(c) == found.commit = c /\ found.next_commit = c

C4_NonExistentPath ==
    (Answered /\ \A c \in TraversedRange : ~Present(tree[c], src_path))
    => result = None

\* ---------------------------------------------------------------- C5
NoDeletes(lo, hi) == \A c \in range(lo, hi), p \in Paths : ~Deletes(c, p)

\* C5 (as claimed): on a linear history without deletes, when the trace from
\* an ancestor returned Some(q), the trace of q back to it returns the path
\* the first trace started from.
C5_Symmetry ==
    (/\ Answered /\ first # NoCall
     /\ Linear(first.src, first.dst) /\ NoDeletes(first.src, first.dst)
     /\ Present(tree[first.src], first.src_path))
    => result = Some(first.src_path)

\* ---------------------------------------------------------------- C6
\* c renames a file to q: q is the one new file of c whose header names a
\* path, and that path is gone from c
Renamed(c, q) ==
    /\ Present(tree[c], q) /\ ~Present(FirstParentTree(c), q)
    /\ tree[c][q].from # NoPath
    /\ Removes(c, tree[c][q].from)
    /\ NewNames(c, tree[c][q].from) = {q}

\* the name at lo of the file that is q at c, when every commit from c back
\* to lo (lo excluded) has one parent and renames the file; NoPath otherwise
RECURSIVE ChainBack(_, _, _)
ChainBack(c, lo, q) ==
    IF c = lo THEN q
    ELSE IF Len(parents[c]) = 1 /\ Renamed(c, q)
    THEN ChainBack(parents[c][1], lo, tree[c][q].from)
    ELSE NoPath

\* C6 (as claimed): along a chain of renames p0 -> p1 -> ... -> pk the trace
\* from c0 to ck takes p0 to pk and the trace from ck to c0 takes pk to p0.
C6_RenameChain ==
    (Answered /\ Related /\ src # dst) =>
        /\ is_ancestor(src, dst) =>
              \A q \in Paths : ChainBack(dst, src, q) = src_path => result = Some(q)
        /\ is_ancestor(dst, src) =>
              (ChainBack(src, dst, src_path) # NoPath
                  => result = Some(ChainBack(src, dst, src_path)))

\* ---------------------------------------------------------------- C7
\* p is in the tree of lo and of the commits after it, up to a commit of
\* the range that deletes it
DeletedAfter(lo, hi, p) ==
    \E c \in range(lo, hi) \ {lo} :
        /\ Deletes(c, p)
        /\ \A e \in range(lo, c) \ {c} : Present(tree[e], p)

\* C7 (as claimed): when a commit after A and up to C deletes p, the traces
\* of p from A to C and from C to A return None.
C7_DeletionSevers ==
    (Answered /\ Related /\ Linear(Lo, Hi) /\ DeletedAfter(Lo, Hi, src_path))
    => result = None

\* ---------------------------------------------------------------- C8
\* C8: when src and dst are two children of one commit, src renames a to
\* src_path and dst renames a to c, the trace walks back to base with path
\* a and returns Some(c).
C8_SplitViaGca ==
    \A b \in Commits, c \in Paths :
        (/\ Answered /\ src # dst
         /\ parents[src] = <<b>> /\ parents[dst] = <<b>>
         /\ Renamed(src, src_path) /\ Renamed(dst, c)
         /\ tree[dst][c].from = tree[src][src_path].from)
        => (/\ base = b
            /\ base_path = tree[src][src_path].from
            /\ result = Some(c))

C8_Witness ==
    /\ Answered /\ src # dst /\ base # 0
    /\ parents[src] = <<base>> /\ parents[dst] = <<base>>
    /\ Renamed(src, src_path)
    /\ result.tag = "Some" /\ Renamed(dst, result.path)
    /\ result.path # src_path
    /\ tree[dst][result.path].from = base_path
    /\ iters = 4

\* ---------------------------------------------------------------- C9
Walking == pc \in {"forward", "backward"}

\* the commits of the walked ranges that modify a path the trace has traced
ModifyingCommits == {c \in walked : \E p \in traced : Modifies(c, p)}

\* the walker runs that have returned
Returned ==
    (IF base_path # NoPath THEN 1 ELSE 0) + (IF Done /\ walked # {} THEN 1 ELSE 0)

\* C9 (as claimed): every trace returns, and its loop passes are at most
\* the commits of the traversed range that modify a traced path.
C9_IterationBound ==
    /\ [](iters <= Cardinality(ModifyingCommits))
    /\ (Walking ~> Done)

\* C9 (amended): every trace returns; the loop passes that go round again
\* are at most the commits of the traversed range that modify a traced
\* path, and each walker run makes one more pass, the one that returns.
C9_Termination ==
    /\ [](iters <= Cardinality(ModifyingCommits) + Returned)
    /\ (Walking ~> Done)

C9_Witness ==
    /\ Done
    /\ \E c \in walked : Len(parents[c]) = 2
    /\ iters >= 2
    /\ result.tag = "Some"
    /\ iters = Cardinality(ModifyingCommits) + Returned

\* ---------------------------------------------------------------- C10
\* C10 (as claimed): a pass of the backward walk that goes round again moves
\* curr to a strict ancestor that target is still an ancestor of; a pass of
\* the forward walk that goes round again moves curr to a strict descendant
\* that is still an ancestor of target.
C10_WalkerProgress ==
    [][/\ (pc = "backward" /\ pc' = "backward") =>
            /\ curr' # curr
            /\ is_ancestor(curr', curr)
            /\ is_ancestor(target, curr')
       /\ (pc = "forward" /\ pc' = "forward") =>
            /\ curr' # curr
            /\ is_ancestor(curr, curr')
            /\ is_ancestor(curr', target)]_vars

\* ---------------------------------------------------------------- C11
\* C11: when neither of src and dst is an ancestor of the other and gca_one
\* returns no commit, trace_rename returns None: no walker is called, no
\* pass runs and no error is returned.
C11_MissingGca ==
    (Answered /\ ~Related /\ gca_one(src, dst) = {})
    => (/\ result = None
        /\ iters = 0 /\ walked = {} /\ traced = {}
        /\ curr = 0 /\ target = 0)

C11_Witness ==
    /\ Answered /\ ~Related /\ gca_one(src, dst) = {}
    /\ Len(parents) = MaxCommits
    /\ Present(tree[src], src_path)
    /\ result = None /\ iters = 0

\* ---------------------------------------------------------------- C12
\* C12: when a collaborator call of a trace fails, or read_root_tree_ids has
\* no entry for a commit whose manifest is needed, the trace has returned
\* and what it returned is that error, never None or a path.
C12_ErrorPropagation ==
    failed # NoFailure => (Done /\ result = Err(failed))

\* the backward walk of the GCA branch fails on a missing root tree id
C12_Witness ==
    /\ Done /\ failed = RootTreeIdNotFound
    /\ ~Related /\ base # 0 /\ split
    /\ iters = 1 /\ found.commit = src
    /\ result = Err(RootTreeIdNotFound)

\* ---------------------------------------------------------------- C13
\* C13 (as claimed): when a commit that changes no file has been inserted
\* into the traversed range of a trace, the same trace on the new repository
\* returns what it returned before (on histories without merges, where the
\* trace has one outcome).
C13_NoOpInsertion ==
    (/\ Answered /\ inserted # 0 /\ first # NoCall
     /\ \A c \in Commits : Len(parents[c]) <= 1
     /\ \A p \in Paths : ~Modifies(inserted, p))
    => result = first.result

\* ---------------------------------------------------------------- C14
\* the commits of the range from lo to hi that modify p
Modifiers(lo, hi, p) == {c \in range(lo, hi) : Modifies(c, p)}

\* c is the commit of S closest to the descendant end: no other commit of S
\* descends from it
ClosestToDescendantEnd(c, S) ==
    c \in S /\ \A m \in S : m = c \/ ~is_ancestor(c, m)

\* c is the commit of S closest to the ancestor end: it descends from no
\* other commit of S
ClosestToAncestorEnd(c, S) ==
    c \in S /\ \A m \in S : m = c \/ ~is_ancestor(m, c)

\* C14 (as claimed): the commit a pass acts on is, of the commits of the
\* range that modify curr_path, the one closest to target: closest to the
\* ancestor end in the backward walk, to the descendant end in the forward
\* walk.
C14_ClosestToTarget ==
    [][/\ (pc = "backward" /\ found'.commit # 0) =>
            ClosestToAncestorEnd(found'.commit,
                                 Modifiers(target, curr, curr_path))
       /\ (pc = "forward" /\ found'.commit # 0) =>
            ClosestToDescendantEnd(found'.commit,
                                   Modifiers(curr, target, curr_path))]_vars

\* C14 (amended): the commit a pass acts on is, of the commits of the range
\* that modify curr_path, the one closest to the descendant end of the
\* range: closest to target in the forward walk, closest to curr in the
\* backward walk.
C14_ClosestToDescendant ==
    [][/\ (pc = "backward" /\ found'.commit # 0) =>
            ClosestToDescendantEnd(found'.commit,
                                   Modifiers(target, curr, curr_path))
       /\ (pc = "forward" /\ found'.commit # 0) =>
            ClosestToDescendantEnd(found'.commit,
                                   Modifiers(curr, target, curr_path))]_vars

\* the first pass of a backward walk over a range where two commits modify
\* the path has acted on the one next to curr
C14_Witness ==
    /\ pc = "backward" /\ iters = 1 /\ failed = NoFailure
    /\ is_ancestor(dst, src) /\ src # dst
    /\ Cardinality(Modifiers(dst, src, src_path)) >= 2
    /\ ClosestToDescendantEnd(found.commit, Modifiers(dst, src, src_path))
    /\ ~ClosestToAncestorEnd(found.commit, Modifiers(dst, src, src_path))

\* ---------------------------------------------------------------- C15
\* C15 (as claimed): the rename map a pass gets from
\* find_renames_in_direction, in either direction, has no entry that maps a
\* path to itself, whatever the rename headers of the file store hold.
C15_NoIdentityEntry ==
    \A k \in DOMAIN found.renames : found.renames[k] # k

\* ---------------------------------------------------------------- C17
\* C17: when two trace invocations on the same DagCopyTrace run with their
\* steps interleaved at arbitrary suspension points, each returns a result it
\* returns when it runs alone.
C17_Independence ==
    /\ Answered => result \in Outcomes(src, dst, src_path)
    /\ (other.pc = "done" /\ other.failed = NoFailure)
         => other.result \in Outcomes(other.src, other.dst, other.src_path)

\* both traces have returned, after a suspension at which both were mid-walk
\* on different paths, and they returned different results
C17_Witness ==
    /\ Answered
    /\ other.pc = "done" /\ other.failed = NoFailure
    /\ overlap
    /\ src_path # other.src_path
    /\ result # other.result
    /\ iters >= 2 /\ other.iters >= 2

\* ---------------------------------------------------------------- C18
\* C18: no step of a trace (the dispatcher, a pass of either walker, with
\* any outcome) changes the DAG, the root trees or the file blobs.
C18_ReadOnly ==
    [][(pc # "idle" \/ pc' # "idle") => (parents' = parents /\ tree' = tree)]_vars

\* a trace of several passes has ended with an error on the full repository
C18_Witness ==
    /\ Done /\ iters >= 2 /\ failed = StoreError
    /\ Len(tree) = MaxCommits

Candidates(c, i) ==
    {p \in Paths : /\ Present(tree[c], p)
                   /\ ~Present(tree[parents[c][i]], p)
                   /\ tree[c][p].from # NoPath}

\* the differ has been asked about commit c by the backward walker
DifferBackward(c) ==
    found.commit = c /\ found.next_commit # 0 /\ found.next_commit # c

\* C20: the raw rename map of a commit has as keys exactly the files that
\* are in the commit's tree, not in its first parent's tree, and have a
\* rename header, each mapped to the path its header names; the backward
\* walker gets that map and the forward walker its inversion; files in both
\* trees or only in the first parent's are no keys, and no other parent
\* counts.
C20_DifferCandidates ==
    \A c \in Commits :
        /\ DifferBackward(c) =>
              /\ found.next_commit = parents[c][1]
              /\ DOMAIN found.renames = Candidates(c, 1)
              /\ \A p \in Candidates(c, 1) : found.renames[p] = tree[c][p].from
        /\ DifferForward(c) =>
              /\ DOMAIN found.renames = {tree[c][p].from : p \in Candidates(c, 1)}
              /\ \A a \in DOMAIN found.renames :
                    /\ found.renames[a] \in Candidates(c, 1)
                    /\ tree[c][found.renames[a]].from = a

\* the backward walker has the map of a merge whose new files against the
\* first parent are not its new files against the second
C20_Witness ==
    \E c \in Commits :
        /\ DifferBackward(c)
        /\ Len(parents[c]) = 2
        /\ Candidates(c, 1) # {}
        /\ Candidates(c, 2) # Candidates(c, 1)
        /\ DOMAIN found.renames = Candidates(c, 1)

\* ---------------------------------------------------------------- C16
\* C16: what trace_rename returns is what trace_rename_forward(src, dst, p)
\* returns when src is an ancestor of dst (src = dst included); otherwise
\* what trace_rename_backward(dst, src, p) returns when dst is an ancestor of
\* src; otherwise, with base the common ancestor taken, what
\* trace_rename_forward(base, dst, q) returns when
\* trace_rename_backward(base, src, p) returned Some(q), and what that
\* backward walk returned when it was no path, and then no forward walk has
\* started.
C16_DispatcherRouting ==
    Answered =>
        IF is_ancestor(src, dst)
        THEN result \in ForwardOutcomes(src, dst, src_path)
        ELSE IF is_ancestor(dst, src)
        THEN result \in BackwardOutcomes(dst, src, src_path)
        ELSE IF gca_one(src, dst) = {}
        THEN result = None
        ELSE /\ base \in gca_one(src, dst)
             /\ IF base_path = NoPath
                THEN /\ result \in BackwardOutcomes(base, src, src_path)
                     /\ result.tag # "Some"
                     /\ walked = range(base, src)
                ELSE /\ Some(base_path) \in BackwardOutcomes(base, src, src_path)
                     /\ result \in ForwardOutcomes(base, dst, base_path)

\* the GCA branch has walked back to another name and forward to None
C16_Witness ==
    /\ Answered /\ ~Related /\ base # 0
    /\ base_path # NoPath /\ base_path # src_path
    /\ Some(base_path) \in BackwardOutcomes(base, src, src_path)
    /\ result = None
    /\ None \in ForwardOutcomes(base, dst, base_path)

\* ---------------------------------------------------------------- C21
\* the items of a batch whose blob has a rename header
HeaderPresent(keys) == {i \in DOMAIN keys : RenameFromKey(keys[i]) # NoPath}

\* C21: read_renamed_metadata returns a map holding exactly the
\* (path -> predecessor path) pairs of the keys whose rename header is
\* present (the empty map for an empty batch); if an item of the stream is an
\* error it returns that error and no map, and the trace fails with it.
C21_MetadataBatchAbort ==
    /\ found.bad = 0 =>
         /\ found.metadata.ok
         /\ DOMAIN found.metadata.value =
                {found.keys[i].path : i \in HeaderPresent(found.keys)}
         /\ \A i \in HeaderPresent(found.keys) :
                found.metadata.value[found.keys[i].path] = RenameFromKey(found.keys[i])
    /\ found.bad # 0 =>
         /\ found.metadata = read_rename_metadata(found.keys, found.bad)[found.bad]
         /\ ~found.metadata.ok
         /\ Done
         /\ failed = found.metadata.error
         /\ result = Err(found.metadata.error)

\* the second item of a batch of two is an error, after an item whose header
\* is present, and the trace has failed
C21_Witness ==
    /\ found.bad = 2
    /\ Len(found.keys) = 2
    /\ HeaderPresent(found.keys) = {1, 2}
    /\ Done
    /\ result = Err(StoreError)

\* ---------------------------------------------------------------- C22
\* the ends of the range the running walker hands to trace_rename_commit
AncestorEnd == IF pc = "backward" THEN target ELSE curr
DescendantEnd == IF pc = "backward" THEN curr ELSE target

\* C22: in every pass of a walker the commit handed to
\* find_renames_in_direction is a member of the range that differs from the
\* range's ancestor-side endpoint, hence has at least one parent, and no
\* trace returns NoParents.
C22_NoParentsUnreachable ==
    [][/\ (Walking /\ found'.commit # 0 /\ found'.commit # AncestorEnd)
            => /\ found'.commit \in range(AncestorEnd, DescendantEnd)
               /\ parent_names(found'.commit) # <<>>
       /\ result' # Err("NoParents")]_vars

\* a walk over a range that holds a parentless commit has handed another
\* commit of the range to find_renames_in_direction, which answered
C22_Witness ==
    /\ Answered
    /\ iters >= 2
    /\ found.next_commit # 0
    /\ \E c \in walked : parent_names(c) = <<>>
    /\ parent_names(found.commit) # <<>>

\* ---------------------------------------------------------------- C23
\* C23 (as claimed): whenever src_path exists in the tree of src and the trace
\* returns Some(q), the path q exists in the tree of dst.
C23_ResultSoundness ==
    (Answered /\ Present(tree[src], src_path) /\ result.tag = "Some")
    => Present(tree[dst], result.path)

====
